---- MODULE Spec2Model ----
(***************************************************************************)
(* Churn analytics of swati-stars/churn-project: the Streamlit dashboard   *)
(* (app.py) and the console report (churn_analysis.py) over the same CSV   *)
(* source.  A data frame is a record [columns, rows]; every row is a       *)
(* function from the frame's column names to values.  A float is kept as   *)
(* an unreduced fraction [num, den]; den = 0 is numpy's NaN (0/0).         *)
(***************************************************************************)
EXTENDS Integers, Sequences, FiniteSets, TLC

VARIABLES
    source,             \* European_Bank.csv: [readable, columns, rows]
    entry,              \* which program runs: "dashboard" or "console"
    pc,                 \* position of the running script
    error,              \* "none", or the exception that ended the run
    cache,              \* st.cache_data's store for load_data()
    df,                 \* the loaded (then annotated) frame
    countries, ages,    \* option lists of the sidebar select boxes
    selected_country, selected_age, selected_gender, selected_activity,
    filtered_df,
    total, churned, churn_rate,
    geo_data, age_data, gender_data, balance_data, avg_bal,
    hv, reg, hv_churn, reg_churn, at_risk,
    geo, age, activity, \* the console report's tables
    in_age, in_balance, \* inputs of the segment functions (SpecSegments)
    out_age_group, out_create_age_group,
    out_balance_segment, out_create_balance_segment

widgets == <<selected_country, selected_age, selected_gender, selected_activity>>
script  == <<df, countries, ages, filtered_df, total, churned, churn_rate,
             geo_data, age_data, gender_data, balance_data, avg_bal,
             hv, reg, hv_churn, reg_churn, at_risk, geo, age, activity>>
segio   == <<in_age, in_balance, out_age_group, out_create_age_group,
             out_balance_segment, out_create_balance_segment>>
vars    == <<source, entry, pc, error, cache, widgets, script, segio>>

-----------------------------------------------------------------------------
(* Bounds of the model *)

\* longest source file, in rows
MaxRecords == 2
\* ages range over -MaxNegAge .. MaxAge in SpecSegments
MaxNegAge == 5
MaxAge == 100
\* balances within BalanceWindow of each segment boundary in SpecSegments
BalanceWindow == 3

(* Thresholds of the program *)
AgeYoungBelow == 30
AgeMiddleBelow == 45
AgeSeniorBelow == 60
BalanceLowBelow == 50000
BalanceMediumBelow == 100000
HighValueThreshold == 100000

-----------------------------------------------------------------------------
(* Values *)

None == "None"
NoFrame == [columns |-> {}, rows |-> <<>>]

Required == {"Age", "Balance", "IsActiveMember", "Exited", "Geography", "Gender"}
Dropped == {"Year", "Surname"}

Customer(g, s, a, b, m, e) ==
    [Geography |-> g, Gender |-> s, Age |-> a, Balance |-> b,
     IsActiveMember |-> m, Exited |-> e, Year |-> 2025, Surname |-> "Smith"]

\* the rows a source file is drawn from: both sides of every age and balance
\* threshold, both genders, both activity values and both outcomes
Customers ==
    { Customer("Germany", "Male",   29, 0,      1, 0),
      Customer("France",  "Female", 44, 120000, 0, 1),
      Customer("Germany", "Female", 59, 50000,  0, 1),
      Customer("France",  "Male",   30, 100000, 1, 0),
      Customer("Spain",   "Male",   45, 49999,  1, 1),
      Customer("Spain",   "Female", 60, 100001, 0, 0) }

SeqsUpTo(S, n) == UNION { [1..k -> S] : k \in 0..n }

Restrict(r, cols) == [c \in cols |-> r[c]]

RestrictRows(rows, cols) == [i \in 1..Len(rows) |-> Restrict(rows[i], cols)]

\* the column sets a source file may have: every column (Year and Surname
\* there to be dropped), or one required column missing (nothing to drop)
ColumnSets ==
    {Required \cup Dropped} \cup { Required \ {c} : c \in Required }

Sources ==
    { [readable |-> FALSE, columns |-> {}, rows |-> <<>>] } \cup
    { [readable |-> TRUE, columns |-> cols, rows |-> RestrictRows(rows, cols)] :
        cols \in ColumnSets, rows \in SeqsUpTo(Customers, MaxRecords) }

-----------------------------------------------------------------------------
(* Floats *)

Float(n) == [num |-> n, den |-> 1]

\* numpy true division: n / 0 is NaN (0/0) or infinite, never an exception
Div(n, d) == [num |-> n, den |-> d]

Times(x, k) == [num |-> x.num * k, den |-> x.den]

FloatEq(x, y) == x.den # 0 /\ y.den # 0 /\ x.num * y.den = y.num * x.den

-----------------------------------------------------------------------------
(* Series helpers of pandas *)

RECURSIVE SumCol(_, _)
SumCol(rows, col) ==
    IF rows = <<>> THEN 0 ELSE rows[1][col] + SumCol(Tail(rows), col)

\* Series.unique(): the distinct values in order of first appearance
RECURSIVE Unique(_, _)
Unique(rows, col) ==
    IF rows = <<>> THEN <<>>
    ELSE LET rest == Unique(SelectSeq(Tail(rows), LAMBDA r : r[col] # rows[1][col]), col)
         IN  <<rows[1][col]>> \o rest

Range(s) == { s[i] : i \in 1..Len(s) }

\* frame[mask]: the rows the test holds of, in order, under the same columns
Where(d, kept) == [columns |-> d.columns, rows |-> kept]

-----------------------------------------------------------------------------
(* Segment rules: app.py (dashboard) and churn_analysis.py (console) *)

age_group_le(a) ==
    IF a <= AgeYoungBelow THEN "Young (<30)"
    ELSE IF a < AgeMiddleBelow THEN "Middle Age (30-45)"
    ELSE IF a < AgeSeniorBelow THEN "Senior (45-60)"
    ELSE "Elderly (60+)"

age_group(a) ==
    IF a < AgeYoungBelow THEN "Young (<30)"
    ELSE IF a < AgeMiddleBelow THEN "Middle Age (30-45)"
    ELSE IF a < AgeSeniorBelow THEN "Senior (45-60)"
    ELSE "Elderly (60+)"

create_age_group(a) ==
    IF a < AgeYoungBelow THEN "Young (<30)"
    ELSE IF a < AgeMiddleBelow THEN "Middle Age (30-45)"
    ELSE IF a < AgeSeniorBelow THEN "Senior (45-60)"
    ELSE "Elderly (60+)"

balance_segment_le(b) ==
    IF b = 0 THEN "Zero Balance"
    ELSE IF b < BalanceLowBelow THEN "Low (<50k)"
    ELSE IF b <= BalanceMediumBelow THEN "Medium (50k-100k)"
    ELSE "High (100k+)"

balance_segment(b) ==
    IF b = 0 THEN "Zero Balance"
    ELSE IF b < BalanceLowBelow THEN "Low (<50k)"
    ELSE IF b < BalanceMediumBelow THEN "Medium (50k-100k)"
    ELSE "High (100k+)"

create_balance_segment_range_first(b) ==
    IF b < BalanceLowBelow THEN "Low (<50k)"
    ELSE IF b = 0 THEN "Zero Balance"
    ELSE IF b < BalanceMediumBelow THEN "Medium (50k-100k)"
    ELSE "High (100k+)"

create_balance_segment(b) ==
    IF b = 0 THEN "Zero Balance"
    ELSE IF b < BalanceLowBelow THEN "Low (<50k)"
    ELSE IF b < BalanceMediumBelow THEN "Medium (50k-100k)"
    ELSE "High (100k+)"

\* Series.map({1: 'Active', 0: 'Inactive'}): any other value maps to NaN
activity_status(m) ==
    IF m = 1 THEN "Active" ELSE IF m = 0 THEN "Inactive" ELSE "NaN"

\* the columns a frame needs for the segment columns to be derived
SegmentInputs == {"Age", "Balance", "IsActiveMember"}

AddColumns(r, ag, bs, act) ==
    [c \in DOMAIN r \cup {"AgeGroup", "BalanceSegment", "ActivityStatus"} |->
        IF c = "AgeGroup" THEN ag
        ELSE IF c = "BalanceSegment" THEN bs
        ELSE IF c = "ActivityStatus" THEN act
        ELSE r[c]]

\* app.py create_segments(df)
create_segments(d) ==
    [columns |-> d.columns \cup {"AgeGroup", "BalanceSegment", "ActivityStatus"},
     rows |-> [i \in 1..Len(d.rows) |->
                 AddColumns(d.rows[i],
                            age_group(d.rows[i]["Age"]),
                            balance_segment(d.rows[i]["Balance"]),
                            activity_status(d.rows[i]["IsActiveMember"]))]]

\* churn_analysis.py lines 39-50
console_segments(d) ==
    [columns |-> d.columns \cup {"AgeGroup", "BalanceSegment", "ActivityStatus"},
     rows |-> [i \in 1..Len(d.rows) |->
                 AddColumns(d.rows[i],
                            create_age_group(d.rows[i]["Age"]),
                            create_balance_segment(d.rows[i]["Balance"]),
                            activity_status(d.rows[i]["IsActiveMember"]))]]

-----------------------------------------------------------------------------
(* Loading *)

\* the body of load_data(): read_csv, then drop Year and Surname if present
read_and_drop(src) ==
    [columns |-> src.columns \ Dropped,
     rows |-> RestrictRows(src.rows, src.columns \ Dropped)]

\* churn_analysis.py line 21: read_csv alone, nothing dropped
read_csv(src) == [columns |-> src.columns, rows |-> src.rows]

-----------------------------------------------------------------------------
(* Group-by aggregation *)

Group(d, col, k) == SelectSeq(d.rows, LAMBDA r : r[col] = k)

Keys(d, col) == { d.rows[i][col] : i \in 1..Len(d.rows) }

\* DataFrame.groupby(col)['Exited'].mean() of one group
MeanExited(rows) == Div(SumCol(rows, "Exited"), Len(rows))

calc_churn_whole_frame(d, segment_col) ==
    { [key |-> k,
       Total |-> Len(d.rows),
       Churned |-> SumCol(Group(d, segment_col, k), "Exited"),
       ChurnRate |-> Times(MeanExited(Group(d, segment_col, k)), 100)] :
        k \in Keys(d, segment_col) }

calc_churn_fraction(d, segment_col) ==
    { [key |-> k,
       Total |-> Len(Group(d, segment_col, k)),
       Churned |-> SumCol(Group(d, segment_col, k), "Exited"),
       ChurnRate |-> MeanExited(Group(d, segment_col, k))] :
        k \in Keys(d, segment_col) }

\* app.py calc_churn(df, segment_col): one row per key present (the rows come
\* sorted by key; the order is not modelled)
calc_churn(d, segment_col) ==
    { [key |-> k,
       Total |-> Len(Group(d, segment_col, k)),
       Churned |-> SumCol(Group(d, segment_col, k), "Exited"),
       ChurnRate |-> Times(MeanExited(Group(d, segment_col, k)), 100)] :
        k \in Keys(d, segment_col) }

\* churn_analysis.py lines 67-69
geo_table(d) ==
    { [key |-> k,
       Total |-> Len(Group(d, "Geography", k)),
       Churned |-> SumCol(Group(d, "Geography", k), "Exited"),
       Rate |-> Times(MeanExited(Group(d, "Geography", k)), 100)] :
        k \in Keys(d, "Geography") }

\* churn_analysis.py lines 76-78
age_table(d) ==
    { [key |-> k,
       Total |-> Len(Group(d, "AgeGroup", k)),
       Rate |-> Times(MeanExited(Group(d, "AgeGroup", k)), 100)] :
        k \in Keys(d, "AgeGroup") }

\* churn_analysis.py line 85
activity_table(d) ==
    { [key |-> k, Rate |-> Times(MeanExited(Group(d, "ActivityStatus", k)), 100)] :
        k \in Keys(d, "ActivityStatus") }

\* app.py line 291: mean balance of the retained and of the churned
avg_bal_table(d) ==
    { [Exited |-> k,
       Balance |-> Div(SumCol(Group(d, "Exited", k), "Balance"),
                       Len(Group(d, "Exited", k)))] :
        k \in Keys(d, "Exited") }

-----------------------------------------------------------------------------
(* Filters *)

\* one of app.py lines 119-129: if sel != 'All': frame = frame[frame[col] == sel]
filter_eq(d, col, sel) ==
    IF sel # "All" THEN Where(d, SelectSeq(d.rows, LAMBDA r : r[col] = sel)) ELSE d

apply_filters_no_gender(d, sc, sa, sg, sact) ==
    filter_eq(filter_eq(filter_eq(d, "Geography", sc), "AgeGroup", sa),
              "ActivityStatus", sact)

\* app.py lines 117-129: country, then age group, gender, activity
apply_filters(d, sc, sa, sg, sact) ==
    filter_eq(filter_eq(filter_eq(filter_eq(d, "Geography", sc),
                                  "AgeGroup", sa),
                        "Gender", sg),
              "ActivityStatus", sact)

-----------------------------------------------------------------------------
(* High-value split *)

high_value_at_or_above(d) == Where(d, SelectSeq(d.rows, LAMBDA r : r["Balance"] >= HighValueThreshold))

\* app.py line 312, churn_analysis.py line 93
high_value(d) == Where(d, SelectSeq(d.rows, LAMBDA r : r["Balance"] > HighValueThreshold))

\* app.py line 313
regular(d) == Where(d, SelectSeq(d.rows, LAMBDA r : r["Balance"] <= HighValueThreshold))

\* app.py lines 141, 315, 316: (churned / n * 100) if n > 0 else 0
guarded_rate(rows) ==
    IF Len(rows) > 0 THEN Times(Div(SumCol(rows, "Exited"), Len(rows)), 100)
    ELSE Float(0)

\* churn_analysis.py lines 57, 94: (sum / len) * 100, no guard
unguarded_rate(rows) == Times(Div(SumCol(rows, "Exited"), Len(rows)), 100)

\* app.py line 328, churn_analysis.py line 95
balance_at_risk(h) ==
    SumCol(SelectSeq(h.rows, LAMBDA r : r["Exited"] = 1), "Balance")

-----------------------------------------------------------------------------
(* Initial state *)

NoFloat == [num |-> -1, den |-> 1]
NoCache == [hit |-> FALSE, value |-> NoFrame]

ScriptInit ==
    /\ df = NoFrame /\ filtered_df = NoFrame
    /\ countries = <<>> /\ ages = <<>>
    /\ total = 0 /\ churned = 0 /\ churn_rate = NoFloat
    /\ geo_data = {} /\ age_data = {} /\ gender_data = {} /\ balance_data = {}
    /\ avg_bal = {}
    /\ hv = NoFrame /\ reg = NoFrame
    /\ hv_churn = NoFloat /\ reg_churn = NoFloat /\ at_risk = 0
    /\ geo = {} /\ age = {} /\ activity = {}

\* a fresh run of the script: every name of the script is unbound again
ScriptReset ==
    /\ df' = NoFrame /\ filtered_df' = NoFrame
    /\ countries' = <<>> /\ ages' = <<>>
    /\ total' = 0 /\ churned' = 0 /\ churn_rate' = NoFloat
    /\ geo_data' = {} /\ age_data' = {} /\ gender_data' = {} /\ balance_data' = {}
    /\ avg_bal' = {}
    /\ hv' = NoFrame /\ reg' = NoFrame
    /\ hv_churn' = NoFloat /\ reg_churn' = NoFloat /\ at_risk' = 0
    /\ geo' = {} /\ age' = {} /\ activity' = {}

WidgetsInit ==
    /\ selected_country = "All" /\ selected_age = "All"
    /\ selected_gender = "All" /\ selected_activity = "All"

SegioIdle ==
    /\ in_age = 0 /\ in_balance = 0
    /\ out_age_group = None /\ out_create_age_group = None
    /\ out_balance_segment = None /\ out_create_balance_segment = None

Init ==
    /\ source \in Sources
    /\ entry \in {"dashboard", "console"}
    /\ pc = IF entry = "dashboard" THEN "load_data" ELSE "read_csv"
    /\ error = "none"
    /\ cache = NoCache
    /\ WidgetsInit
    /\ ScriptInit
    /\ SegioIdle

Running(e, at) == entry = e /\ pc = at /\ error = "none"

\* an uncaught exception ends the run where it is raised
Raise(e) == error' = e /\ pc' = pc

-----------------------------------------------------------------------------
(* The dashboard: one run of app.py *)

\* line 92: df = load_data() under @st.cache_data; a hit returns a copy of
\* the stored frame, a miss runs the body and stores what it returns
LoadData ==
    /\ Running("dashboard", "load_data")
    /\ IF cache.hit
       THEN /\ df' = cache.value
            /\ pc' = "create_segments"
            /\ UNCHANGED <<cache, error>>
       ELSE IF ~source.readable
       THEN /\ Raise("FileNotFoundError")
            /\ UNCHANGED <<cache, df>>
       ELSE /\ cache' = [hit |-> TRUE, value |-> read_and_drop(source)]
            /\ df' = read_and_drop(source)
            /\ pc' = "create_segments"
            /\ UNCHANGED error
    /\ UNCHANGED <<source, entry, widgets, segio, countries, ages, filtered_df,
                   total, churned, churn_rate, geo_data, age_data, gender_data,
                   balance_data, avg_bal, hv, reg, hv_churn, reg_churn, at_risk,
                   geo, age, activity>>

\* line 93: df = create_segments(df)
CreateSegments ==
    /\ Running("dashboard", "create_segments")
    /\ IF SegmentInputs \subseteq df.columns
       THEN /\ df' = create_segments(df)
            /\ pc' = "sidebar"
            /\ UNCHANGED error
       ELSE /\ Raise("KeyError")
            /\ UNCHANGED df
    /\ UNCHANGED <<source, entry, cache, widgets, segio, countries, ages,
                   filtered_df, total, churned, churn_rate, geo_data, age_data,
                   gender_data, balance_data, avg_bal, hv, reg, hv_churn,
                   reg_churn, at_risk, geo, age, activity>>

\* lines 98-112: the option lists; each select box returns the session's
\* current selection
Sidebar ==
    /\ Running("dashboard", "sidebar")
    /\ IF "Geography" \in df.columns
       THEN /\ countries' = <<"All">> \o Unique(df.rows, "Geography")
            /\ ages' = <<"All">> \o Unique(df.rows, "AgeGroup")
            /\ pc' = "apply_filters"
            /\ UNCHANGED error
       ELSE /\ Raise("KeyError")
            /\ UNCHANGED <<countries, ages>>
    /\ UNCHANGED <<source, entry, cache, widgets, segio, df, filtered_df,
                   total, churned, churn_rate, geo_data, age_data, gender_data,
                   balance_data, avg_bal, hv, reg, hv_churn, reg_churn, at_risk,
                   geo, age, activity>>

\* the columns the filters that are set read
FilterColumns ==
    (IF selected_country # "All" THEN {"Geography"} ELSE {}) \cup
    (IF selected_age # "All" THEN {"AgeGroup"} ELSE {}) \cup
    (IF selected_gender # "All" THEN {"Gender"} ELSE {}) \cup
    (IF selected_activity # "All" THEN {"ActivityStatus"} ELSE {})

ApplyFiltersOnDf ==
    /\ Running("dashboard", "apply_filters")
    /\ IF FilterColumns \subseteq df.columns
       THEN /\ filtered_df' = apply_filters(df, selected_country, selected_age,
                                            selected_gender, selected_activity)
            /\ df' = filtered_df'
            /\ pc' = "kpis"
            /\ UNCHANGED error
       ELSE /\ Raise("KeyError")
            /\ UNCHANGED <<filtered_df, df>>
    /\ UNCHANGED <<source, entry, cache, widgets, segio, countries, ages,
                   total, churned, churn_rate, geo_data, age_data, gender_data,
                   balance_data, avg_bal, hv, reg, hv_churn, reg_churn, at_risk,
                   geo, age, activity>>

\* lines 117-129: filtered_df = df.copy(), then one mask per filter that is set
ApplyFilters ==
    /\ Running("dashboard", "apply_filters")
    /\ IF FilterColumns \subseteq df.columns
       THEN /\ filtered_df' = apply_filters(df, selected_country, selected_age,
                                            selected_gender, selected_activity)
            /\ pc' = "kpis"
            /\ UNCHANGED error
       ELSE /\ Raise("KeyError")
            /\ UNCHANGED filtered_df
    /\ UNCHANGED <<source, entry, cache, widgets, segio, df, countries, ages,
                   total, churned, churn_rate, geo_data, age_data, gender_data,
                   balance_data, avg_bal, hv, reg, hv_churn, reg_churn, at_risk,
                   geo, age, activity>>

\* lines 139-141
Kpis ==
    /\ Running("dashboard", "kpis")
    /\ total' = Len(filtered_df.rows)
    /\ IF "Exited" \in filtered_df.columns
       THEN /\ churned' = SumCol(filtered_df.rows, "Exited")
            /\ churn_rate' = guarded_rate(filtered_df.rows)
            /\ pc' = "tab1"
            /\ UNCHANGED error
       ELSE /\ Raise("KeyError")
            /\ UNCHANGED <<churned, churn_rate>>
    /\ UNCHANGED <<source, entry, cache, widgets, segio, df, countries, ages,
                   filtered_df, geo_data, age_data, gender_data, balance_data,
                   avg_bal, hv, reg, hv_churn, reg_churn, at_risk,
                   geo, age, activity>>

\* line 176
Tab1 ==
    /\ Running("dashboard", "tab1")
    /\ geo_data' = calc_churn(filtered_df, "Geography")
    /\ pc' = "tab2"
    /\ UNCHANGED <<source, entry, error, cache, widgets, segio, df, countries,
                   ages, filtered_df, total, churned, churn_rate, age_data,
                   gender_data, balance_data, avg_bal, hv, reg, hv_churn,
                   reg_churn, at_risk, geo, age, activity>>

Tab2AgeOnly ==
    /\ Running("dashboard", "tab2")
    /\ age_data' = calc_churn(filtered_df, "AgeGroup")
    /\ pc' = "tab3"
    /\ UNCHANGED <<source, entry, error, cache, widgets, segio, df, countries,
                   ages, filtered_df, total, churned, churn_rate, geo_data,
                   gender_data, balance_data, avg_bal, hv, reg, hv_churn,
                   reg_churn, at_risk, geo, age, activity>>

\* lines 213 and 242
Tab2 ==
    /\ Running("dashboard", "tab2")
    /\ age_data' = calc_churn(filtered_df, "AgeGroup")
    /\ IF "Gender" \in filtered_df.columns
       THEN /\ gender_data' = calc_churn(filtered_df, "Gender")
            /\ pc' = "tab3"
            /\ UNCHANGED error
       ELSE /\ Raise("KeyError")
            /\ UNCHANGED gender_data
    /\ UNCHANGED <<source, entry, cache, widgets, segio, df, countries, ages,
                   filtered_df, total, churned, churn_rate, geo_data,
                   balance_data, avg_bal, hv, reg, hv_churn, reg_churn, at_risk,
                   geo, age, activity>>

\* lines 274 and 291
Tab3 ==
    /\ Running("dashboard", "tab3")
    /\ balance_data' = calc_churn(filtered_df, "BalanceSegment")
    /\ avg_bal' = avg_bal_table(filtered_df)
    /\ pc' = "tab4"
    /\ UNCHANGED <<source, entry, error, cache, widgets, segio, df, countries,
                   ages, filtered_df, total, churned, churn_rate, geo_data,
                   age_data, gender_data, hv, reg, hv_churn, reg_churn, at_risk,
                   geo, age, activity>>

\* lines 312-328
Tab4 ==
    /\ Running("dashboard", "tab4")
    /\ hv' = high_value(filtered_df)
    /\ reg' = regular(filtered_df)
    /\ hv_churn' = guarded_rate(hv'.rows)
    /\ reg_churn' = guarded_rate(reg'.rows)
    /\ at_risk' = balance_at_risk(hv')
    /\ pc' = "done"
    /\ UNCHANGED <<source, entry, error, cache, widgets, segio, df, countries,
                   ages, filtered_df, total, churned, churn_rate, geo_data,
                   age_data, gender_data, balance_data, avg_bal,
                   geo, age, activity>>

\* the select boxes are on the page once the sidebar has been drawn, and stay
\* there when the run ends, normally or by an exception
WidgetsShown == entry = "dashboard" /\ countries # <<>> /\ (pc = "done" \/ error # "none")

\* a changed selection starts the script again from the top
Rerun ==
    /\ pc' = "load_data"
    /\ error' = "none"
    /\ ScriptReset
    /\ UNCHANGED <<source, entry, cache, segio>>

SelectCountry ==
    /\ WidgetsShown
    /\ \E c \in Range(countries) \ {selected_country} : selected_country' = c
    /\ UNCHANGED <<selected_age, selected_gender, selected_activity>>
    /\ Rerun

SelectAge ==
    /\ WidgetsShown
    /\ \E g \in Range(ages) \ {selected_age} : selected_age' = g
    /\ UNCHANGED <<selected_country, selected_gender, selected_activity>>
    /\ Rerun

SelectGender ==
    /\ WidgetsShown
    /\ \E g \in {"All", "Male", "Female"} \ {selected_gender} : selected_gender' = g
    /\ UNCHANGED <<selected_country, selected_age, selected_activity>>
    /\ Rerun

SelectActivity ==
    /\ WidgetsShown
    /\ \E s \in {"All", "Active", "Inactive"} \ {selected_activity} :
          selected_activity' = s
    /\ UNCHANGED <<selected_country, selected_age, selected_gender>>
    /\ Rerun

-----------------------------------------------------------------------------
(* The console report: one run of churn_analysis.py *)

\* line 21
ReadCsv ==
    /\ Running("console", "read_csv")
    /\ IF source.readable
       THEN /\ df' = read_csv(source)
            /\ pc' = "segments"
            /\ UNCHANGED error
       ELSE /\ Raise("FileNotFoundError")
            /\ UNCHANGED df
    /\ UNCHANGED <<source, entry, cache, widgets, segio, countries, ages,
                   filtered_df, total, churned, churn_rate, geo_data, age_data,
                   gender_data, balance_data, avg_bal, hv, reg, hv_churn,
                   reg_churn, at_risk, geo, age, activity>>

\* lines 39, 48 and 50
Segments ==
    /\ Running("console", "segments")
    /\ IF SegmentInputs \subseteq df.columns
       THEN /\ df' = console_segments(df)
            /\ pc' = "overall"
            /\ UNCHANGED error
       ELSE /\ Raise("KeyError")
            /\ UNCHANGED df
    /\ UNCHANGED <<source, entry, cache, widgets, segio, countries, ages,
                   filtered_df, total, churned, churn_rate, geo_data, age_data,
                   gender_data, balance_data, avg_bal, hv, reg, hv_churn,
                   reg_churn, at_risk, geo, age, activity>>

\* lines 55-57, the Exited column present.  Over no rows the division is 0/0:
\* NaN when the sum is a numpy scalar, ZeroDivisionError when it is a Python
\* int (the sum of an empty object column); the dtype read_csv gives the
\* empty column decides
Overall ==
    /\ Running("console", "overall")
    /\ "Exited" \in df.columns
    /\ total' = Len(df.rows)
    /\ churned' = SumCol(df.rows, "Exited")
    /\ \/ /\ churn_rate' = unguarded_rate(df.rows)
          /\ pc' = "by_country"
          /\ UNCHANGED error
       \/ /\ Len(df.rows) = 0
          /\ Raise("ZeroDivisionError")
          /\ UNCHANGED churn_rate
    /\ UNCHANGED <<source, entry, cache, widgets, segio, df, countries, ages,
                   filtered_df, geo_data, age_data, gender_data, balance_data,
                   avg_bal, hv, reg, hv_churn, reg_churn, at_risk,
                   geo, age, activity>>

\* lines 55-56, the Exited column missing
OverallNoExited ==
    /\ Running("console", "overall")
    /\ "Exited" \notin df.columns
    /\ total' = Len(df.rows)
    /\ Raise("KeyError")
    /\ UNCHANGED <<source, entry, cache, widgets, segio, df, countries, ages,
                   filtered_df, churned, churn_rate, geo_data, age_data,
                   gender_data, balance_data, avg_bal, hv, reg, hv_churn,
                   reg_churn, at_risk, geo, age, activity>>

\* lines 67-69
ByCountry ==
    /\ Running("console", "by_country")
    /\ IF "Geography" \in df.columns
       THEN /\ geo' = geo_table(df)
            /\ pc' = "by_age"
            /\ UNCHANGED error
       ELSE /\ Raise("KeyError")
            /\ UNCHANGED geo
    /\ UNCHANGED <<source, entry, cache, widgets, segio, df, countries, ages,
                   filtered_df, total, churned, churn_rate, geo_data, age_data,
                   gender_data, balance_data, avg_bal, hv, reg, hv_churn,
                   reg_churn, at_risk, age, activity>>

\* lines 76-78
ByAge ==
    /\ Running("console", "by_age")
    /\ age' = age_table(df)
    /\ pc' = "by_activity"
    /\ UNCHANGED <<source, entry, error, cache, widgets, segio, df, countries,
                   ages, filtered_df, total, churned, churn_rate, geo_data,
                   age_data, gender_data, balance_data, avg_bal, hv, reg,
                   hv_churn, reg_churn, at_risk, geo, activity>>

\* lines 85-88: activity['Active'] and activity['Inactive'] are looked up, and
\* a label no row carries is a KeyError
ByActivity ==
    /\ Running("console", "by_activity")
    /\ activity' = activity_table(df)
    /\ IF {"Active", "Inactive"} \subseteq Keys(df, "ActivityStatus")
       THEN /\ pc' = "high_value"
            /\ UNCHANGED error
       ELSE Raise("KeyError")
    /\ UNCHANGED <<source, entry, cache, widgets, segio, df, countries, ages,
                   filtered_df, total, churned, churn_rate, geo_data, age_data,
                   gender_data, balance_data, avg_bal, hv, reg, hv_churn,
                   reg_churn, at_risk, geo, age>>

\* lines 93-95; lines 97-111 only print
HighValue ==
    /\ Running("console", "high_value")
    /\ hv' = high_value(df)
    /\ hv_churn' = unguarded_rate(hv'.rows)
    /\ at_risk' = balance_at_risk(hv')
    /\ pc' = "done"
    /\ UNCHANGED <<source, entry, error, cache, widgets, segio, df, countries,
                   ages, filtered_df, total, churned, churn_rate, geo_data,
                   age_data, gender_data, balance_data, avg_bal, reg, reg_churn,
                   geo, age, activity>>

-----------------------------------------------------------------------------
(* The two programs over one source *)

Next ==
    \/ LoadData \/ CreateSegments \/ Sidebar \/ ApplyFilters \/ Kpis
    \/ Tab1 \/ Tab2 \/ Tab3 \/ Tab4
    \/ SelectCountry \/ SelectAge \/ SelectGender \/ SelectActivity
    \/ ReadCsv \/ Segments \/ Overall \/ OverallNoExited \/ ByCountry \/ ByAge
    \/ ByActivity \/ HighValue

Spec == Init /\ [][Next]_vars

-----------------------------------------------------------------------------
(* The segment functions alone, over ages and balances around every boundary *)

AgeInputs == (0 - MaxNegAge) .. MaxAge

BalanceInputs ==
    (0 .. BalanceWindow)
    \cup ((BalanceLowBelow - BalanceWindow) .. (BalanceLowBelow + BalanceWindow))
    \cup ((BalanceMediumBelow - BalanceWindow) .. (BalanceMediumBelow + BalanceWindow))

InitSegments ==
    /\ source = [readable |-> FALSE, columns |-> {}, rows |-> <<>>]
    /\ entry = "segments"
    /\ pc = "call"
    /\ error = "none"
    /\ cache = NoCache
    /\ WidgetsInit
    /\ ScriptInit
    /\ in_age \in AgeInputs
    /\ in_balance \in BalanceInputs
    /\ out_age_group = None /\ out_create_age_group = None
    /\ out_balance_segment = None /\ out_create_balance_segment = None

CallAgeGroup ==
    /\ entry = "segments" /\ out_age_group = None
    /\ out_age_group' = age_group(in_age)
    /\ UNCHANGED <<source, entry, pc, error, cache, widgets, script, in_age,
                   in_balance, out_create_age_group, out_balance_segment,
                   out_create_balance_segment>>

CallCreateAgeGroup ==
    /\ entry = "segments" /\ out_create_age_group = None
    /\ out_create_age_group' = create_age_group(in_age)
    /\ UNCHANGED <<source, entry, pc, error, cache, widgets, script, in_age,
                   in_balance, out_age_group, out_balance_segment,
                   out_create_balance_segment>>

CallBalanceSegment ==
    /\ entry = "segments" /\ out_balance_segment = None
    /\ out_balance_segment' = balance_segment(in_balance)
    /\ UNCHANGED <<source, entry, pc, error, cache, widgets, script, in_age,
                   in_balance, out_age_group, out_create_age_group,
                   out_create_balance_segment>>

CallCreateBalanceSegment ==
    /\ entry = "segments" /\ out_create_balance_segment = None
    /\ out_create_balance_segment' = create_balance_segment(in_balance)
    /\ UNCHANGED <<source, entry, pc, error, cache, widgets, script, in_age,
                   in_balance, out_age_group, out_create_age_group,
                   out_balance_segment>>

NextSegments ==
    \/ CallAgeGroup \/ CallCreateAgeGroup
    \/ CallBalanceSegment \/ CallCreateBalanceSegment

SpecSegments == InitSegments /\ [][NextSegments]_vars

-----------------------------------------------------------------------------
(* Positions *)

DashboardOrder ==
    [load_data |-> 1, create_segments |-> 2, sidebar |-> 3, apply_filters |-> 4,
     kpis |-> 5, tab1 |-> 6, tab2 |-> 7, tab3 |-> 8, tab4 |-> 9, done |-> 10]

ConsoleOrder ==
    [read_csv |-> 1, segments |-> 2, overall |-> 3, by_country |-> 4,
     by_age |-> 5, by_activity |-> 6, high_value |-> 7, done |-> 8]

\* the dashboard run has completed the named step
DashboardPast(step) == entry = "dashboard" /\ DashboardOrder[pc] > DashboardOrder[step]

\* the console run has completed the named step
ConsolePast(step) == entry = "console" /\ ConsoleOrder[pc] > ConsoleOrder[step]

Positions(d) == 1 .. Len(d.rows)

RECURSIVE SumTotal(_)
SumTotal(tbl) ==
    IF tbl = {} THEN 0
    ELSE LET r == CHOOSE x \in tbl : TRUE IN r.Total + SumTotal(tbl \ {r})

-----------------------------------------------------------------------------
(* C1 *)

\* tbl is the aggregate of frame d by column col: one row per key value
\* present, Total the number of records with the key, Churned the number of
\* those with Exited = 1, and the Totals add up to the number of records
AggregateOf(tbl, d, col) ==
    /\ \A i \in Positions(d) : \E r \in tbl : r.key = d.rows[i][col]
    /\ \A r \in tbl : \E i \in Positions(d) : d.rows[i][col] = r.key
    /\ \A r1, r2 \in tbl : r1.key = r2.key => r1 = r2
    /\ \A r \in tbl :
          /\ r.Total = Cardinality({ i \in Positions(d) : d.rows[i][col] = r.key })
          /\ r.Churned = Cardinality({ i \in Positions(d) :
                             d.rows[i][col] = r.key /\ d.rows[i]["Exited"] = 1 })
    /\ SumTotal(tbl) = Len(d.rows)

\* C1: for every record sequence and every grouping key (Geography, AgeGroup,
\* Gender, BalanceSegment) the aggregate has one row per distinct key value
\* present, each row's Total is the number of records with that key value and
\* its Churned the number of those that exited, and the Totals sum to the
\* number of input records (the dashboard's four tables over the filtered
\* frame, the console report's country table over the whole frame)
C1_AggregateCounts ==
    /\ DashboardPast("tab1") => AggregateOf(geo_data, filtered_df, "Geography")
    /\ DashboardPast("tab2") =>
          /\ AggregateOf(age_data, filtered_df, "AgeGroup")
          /\ AggregateOf(gender_data, filtered_df, "Gender")
    /\ DashboardPast("tab3") => AggregateOf(balance_data, filtered_df, "BalanceSegment")
    /\ ConsolePast("by_country") => AggregateOf(geo, df, "Geography")

C1_Witness ==
    /\ entry = "dashboard" /\ pc = "done"
    /\ Len(filtered_df.rows) = 2
    /\ Cardinality(geo_data) = 2
    /\ \E r \in gender_data : r.Total = 2 /\ r.Churned = 1

-----------------------------------------------------------------------------
(* C2 *)

RowInvariant(tot, chu, rate) ==
    /\ tot >= 1
    /\ chu <= tot
    /\ FloatEq(rate, Div(chu * 100, tot))
    /\ rate.den > 0 /\ 0 <= rate.num /\ rate.num <= 100 * rate.den

\* C2: every aggregate row has Total >= 1, Churned <= Total, a churn rate of
\* Churned / Total * 100 and a churn rate within [0, 100]; no row with Total 0
\* is produced
C2_RowInvariants ==
    /\ \A r \in geo_data \cup age_data \cup gender_data \cup balance_data :
          RowInvariant(r.Total, r.Churned, r.ChurnRate)
    /\ \A r \in geo : RowInvariant(r.Total, r.Churned, r.Rate)

C2_Witness ==
    /\ entry = "dashboard" /\ pc = "done"
    /\ \E r \in geo_data : r.Total = 2 /\ r.Churned = 1
    /\ \E r \in balance_data : r.Total = 1 /\ r.Churned = 0

-----------------------------------------------------------------------------
(* C3 *)

Selections ==
    << <<"Geography", selected_country>>, <<"AgeGroup", selected_age>>,
       <<"Gender", selected_gender>>, <<"ActivityStatus", selected_activity>> >>

Matches(r) ==
    \A k \in 1..4 : Selections[k][2] = "All" \/ r[Selections[k][1]] = Selections[k][2]

Orders == { o \in [1..4 -> 1..4] : \A i, j \in 1..4 : o[i] = o[j] => i = j }

FilterIn(o, d) ==
    filter_eq(filter_eq(filter_eq(filter_eq(d,
        Selections[o[1]][1], Selections[o[1]][2]),
        Selections[o[2]][1], Selections[o[2]][2]),
        Selections[o[3]][1], Selections[o[3]][2]),
        Selections[o[4]][1], Selections[o[4]][2])

\* C3: for every combination of the four selections the filtered frame is
\* exactly the records of the annotated frame that equal the selected value on
\* every dimension not set to 'All', in their original order; with all four
\* 'All' it equals the input; and applying the four predicates in any order
\* gives the same frame
C3_FilterExact ==
    (entry = "dashboard" /\ pc = "kpis") =>
        /\ filtered_df.rows = SelectSeq(df.rows, Matches)
        /\ filtered_df.columns = df.columns
        /\ (\A k \in 1..4 : Selections[k][2] = "All") => filtered_df = df
        /\ \A o \in Orders : FilterIn(o, df) = filtered_df

C3_Witness ==
    /\ entry = "dashboard" /\ pc = "kpis"
    /\ selected_country # "All" /\ selected_gender # "All"
    /\ Len(df.rows) = 2 /\ Len(filtered_df.rows) = 1
    /\ filtered_df.rows[1] = df.rows[2]

-----------------------------------------------------------------------------
(* C4 *)

Count(rows, x) == Cardinality({ i \in 1..Len(rows) : rows[i] = x })

ChurnedIn(rows) == Cardinality({ i \in 1..Len(rows) : rows[i]["Exited"] = 1 })

\* h holds, in order, exactly the records of d above 100000
HighPartOf(h, d) ==
    /\ \A i \in Positions(h) : h.rows[i]["Balance"] > 100000
    /\ \A x \in Range(d.rows) :
          Count(h.rows, x) = (IF x["Balance"] > 100000 THEN Count(d.rows, x) ELSE 0)
    /\ Range(h.rows) \subseteq Range(d.rows)

\* g holds exactly the records of d at or below 100000
RegularPartOf(g, d) ==
    /\ \A i \in Positions(g) : g.rows[i]["Balance"] <= 100000
    /\ \A x \in Range(d.rows) :
          Count(g.rows, x) = (IF x["Balance"] <= 100000 THEN Count(d.rows, x) ELSE 0)
    /\ Range(g.rows) \subseteq Range(d.rows)

RateOf(rate, rows) ==
    Len(rows) > 0 => FloatEq(rate, Div(ChurnedIn(rows) * 100, Len(rows)))

AtRiskOf(d) ==
    SumCol(SelectSeq(d.rows, LAMBDA r : r["Balance"] > 100000 /\ r["Exited"] = 1),
           "Balance")

\* C4: the split at 100000 puts every record in exactly one of two partitions,
\* high-value if Balance > 100000 and regular if Balance <= 100000 (exactly
\* 100000 is regular); the partitions are disjoint and together hold every
\* record; the churn rate of a partition that has records is its churned count
\* / its size * 100; balance at risk is the sum of Balance over the high-value
\* records that exited (the console report builds the high-value side only)
C4_HighValueSplit ==
    /\ (entry = "dashboard" /\ pc = "done") =>
          /\ HighPartOf(hv, filtered_df)
          /\ RegularPartOf(reg, filtered_df)
          /\ Len(hv.rows) + Len(reg.rows) = Len(filtered_df.rows)
          /\ Range(hv.rows) \cap Range(reg.rows) = {}
          /\ RateOf(hv_churn, hv.rows)
          /\ RateOf(reg_churn, reg.rows)
          /\ at_risk = AtRiskOf(filtered_df)
    /\ (entry = "console" /\ pc = "done") =>
          /\ HighPartOf(hv, df)
          /\ RateOf(hv_churn, hv.rows)
          /\ at_risk = AtRiskOf(df)

C4_Witness ==
    /\ entry = "dashboard" /\ pc = "done"
    /\ Len(hv.rows) = 1 /\ Len(reg.rows) = 1
    /\ reg.rows[1]["Balance"] = 100000
    /\ at_risk = 120000
    /\ FloatEq(hv_churn, Float(100))

-----------------------------------------------------------------------------
(* C5 *)

IsZero(x) == x.den # 0 /\ x.num = 0

\* C5: every rate and sum over zero records is 0, never an exception or NaN,
\* in the dashboard and in the console report: the overall churn rate of an
\* empty record set, the high-value churn rate and the balance at risk when no
\* record is above the threshold, the regular churn rate when no record is at
\* or below it
C5_ZeroDenominator ==
    /\ error # "ZeroDivisionError"
    /\ (DashboardPast("kpis") /\ total = 0) => IsZero(churn_rate)
    /\ (ConsolePast("overall") /\ total = 0) => IsZero(churn_rate)
    /\ (pc = "done" /\ Len(hv.rows) = 0) => (IsZero(hv_churn) /\ at_risk = 0)
    /\ (entry = "dashboard" /\ pc = "done" /\ Len(reg.rows) = 0) => IsZero(reg_churn)

-----------------------------------------------------------------------------
(* C10 *)

HighTotal(tbl) ==
    IF \E r \in tbl : r.key = "High (100k+)"
    THEN (CHOOSE r \in tbl : r.key = "High (100k+)").Total
    ELSE 0

\* C10: every record of the high-value partition (Balance > 100000) has
\* balance segment High; the High records in the regular partition are exactly
\* those with Balance = 100000; so the Total of the High row of the aggregate
\* by balance segment is the size of the high-value partition plus the number
\* of records with Balance exactly 100000
C10_HighSegmentVsHighValue ==
    /\ (pc = "done" /\ entry \in {"dashboard", "console"}) =>
          \A i \in Positions(hv) : hv.rows[i]["BalanceSegment"] = "High (100k+)"
    /\ (pc = "done" /\ entry = "dashboard") =>
          /\ \A i \in Positions(reg) :
                reg.rows[i]["BalanceSegment"] = "High (100k+)"
                    <=> reg.rows[i]["Balance"] = 100000
          /\ HighTotal(balance_data) =
                Len(hv.rows) + Cardinality({ i \in Positions(filtered_df) :
                                   filtered_df.rows[i]["Balance"] = 100000 })

C10_Witness ==
    /\ entry = "dashboard" /\ pc = "done"
    /\ Len(hv.rows) = 1
    /\ \E i \in Positions(reg) : reg.rows[i]["Balance"] = 100000
    /\ HighTotal(balance_data) = 2

-----------------------------------------------------------------------------
(* C9 *)

Loaded == read_and_drop(source)

Annotated == create_segments(Loaded)

Filtered ==
    apply_filters(Annotated, selected_country, selected_age, selected_gender,
                  selected_activity)

\* C9: after any sequence of selection changes the stored dataset is the one
\* load produced, the frame of the run is load followed by annotate (no filter
\* or aggregate has modified it), and the filtered frame and every figure
\* shown are those of that dataset under the current selections alone
C9_ResultsFromSelectionsAlone ==
    /\ cache.hit => cache.value = Loaded
    /\ DashboardPast("create_segments") => df = Annotated
    /\ DashboardPast("apply_filters") => filtered_df = Filtered
    /\ (entry = "dashboard" /\ pc = "done") =>
          /\ total = Len(Filtered.rows)
          /\ churned = SumCol(Filtered.rows, "Exited")
          /\ churn_rate = guarded_rate(Filtered.rows)
          /\ geo_data = calc_churn(Filtered, "Geography")
          /\ age_data = calc_churn(Filtered, "AgeGroup")
          /\ gender_data = calc_churn(Filtered, "Gender")
          /\ balance_data = calc_churn(Filtered, "BalanceSegment")
          /\ hv = high_value(Filtered) /\ reg = regular(Filtered)
          /\ hv_churn = guarded_rate(hv.rows) /\ reg_churn = guarded_rate(reg.rows)
          /\ at_risk = balance_at_risk(hv)

\* a completed run after at least two selection changes, one of them undone
C9_Witness ==
    /\ entry = "dashboard" /\ pc = "done" /\ cache.hit
    /\ selected_country # "All" /\ selected_activity # "All"
    /\ selected_age = "All" /\ selected_gender = "All"
    /\ Len(df.rows) = 2 /\ Len(filtered_df.rows) = 1

-----------------------------------------------------------------------------
(* C8 *)

Missing == IF source.readable THEN Required \ source.columns ELSE {}

AtLoad == pc \in {"load_data", "read_csv"}

FirstUse(c) ==
    IF entry = "dashboard"
    THEN CASE c \in SegmentInputs -> DashboardOrder["create_segments"]
           [] c = "Geography" -> DashboardOrder["sidebar"]
           [] c = "Exited" -> DashboardOrder["kpis"]
           [] c = "Gender" -> IF selected_gender # "All"
                              THEN DashboardOrder["apply_filters"]
                              ELSE DashboardOrder["tab2"]
    ELSE CASE c \in SegmentInputs -> ConsoleOrder["segments"]
           [] c = "Exited" -> ConsoleOrder["overall"]
           [] c = "Geography" -> ConsoleOrder["by_country"]
           [] c = "Gender" -> ConsoleOrder["done"]

Position == IF entry = "dashboard" THEN DashboardOrder[pc] ELSE ConsoleOrder[pc]

-----------------------------------------------------------------------------
(* C6 *)

AgeLabel(a) ==
    CASE a < 30 -> "Young (<30)"
      [] 30 <= a /\ a < 45 -> "Middle Age (30-45)"
      [] 45 <= a /\ a < 60 -> "Senior (45-60)"
      [] a >= 60 -> "Elderly (60+)"

AgeRank(l) ==
    CASE l = "Young (<30)" -> 1
      [] l = "Middle Age (30-45)" -> 2
      [] l = "Senior (45-60)" -> 3
      [] l = "Elderly (60+)" -> 4

\* C6: for every integer age, negative ones included, the age-group function
\* returns Young below 30, MiddleAge from 30 below 45, Senior from 45 below 60,
\* Elderly from 60; the mapping is monotonic in the age; the dashboard's
\* age_group and the console report's create_age_group return the same label
C6_AgeGroups ==
    /\ out_age_group # None =>
          /\ out_age_group = AgeLabel(in_age)
          /\ \A a2 \in AgeInputs :
                in_age <= a2 => AgeRank(out_age_group) <= AgeRank(age_group(a2))
    /\ out_create_age_group # None =>
          /\ out_create_age_group = AgeLabel(in_age)
          /\ \A a2 \in AgeInputs :
                in_age <= a2 =>
                    AgeRank(out_create_age_group) <= AgeRank(create_age_group(a2))
    /\ (out_age_group # None /\ out_create_age_group # None) =>
          out_age_group = out_create_age_group

C6_Witness ==
    /\ in_age = 30
    /\ out_age_group = "Middle Age (30-45)"
    /\ out_create_age_group = "Middle Age (30-45)"

-----------------------------------------------------------------------------
(* C7 *)

BalanceLabel(b) ==
    CASE b = 0 -> "Zero Balance"
      [] 0 < b /\ b < 50000 -> "Low (<50k)"
      [] 50000 <= b /\ b < 100000 -> "Medium (50k-100k)"
      [] b >= 100000 -> "High (100k+)"

\* C7: for every balance b >= 0 the balance-segment function returns Zero for
\* b = 0, Low for 0 < b < 50000, Medium for 50000 <= b < 100000, High for
\* b >= 100000; balance 0 is Zero and never Low; the dashboard's
\* balance_segment and the console report's create_balance_segment agree
C7_BalanceSegments ==
    /\ out_balance_segment # None => out_balance_segment = BalanceLabel(in_balance)
    /\ out_create_balance_segment # None =>
          out_create_balance_segment = BalanceLabel(in_balance)
    /\ (out_balance_segment # None /\ out_create_balance_segment # None) =>
          out_balance_segment = out_create_balance_segment

C7_Witness ==
    /\ in_balance = 0
    /\ out_balance_segment = "Zero Balance"
    /\ out_create_balance_segment = "Zero Balance"

====
